---- MODULE Spec2Model ----
(***************************************************************************)
(* A model of the mlatu command-line driver (src/src/main.rs): loading of  *)
(* rule files, the startup of the engine thread with its bootstrap         *)
(* closure, the two unbounded channels between the engine thread and the   *)
(* interactive front-end, and the process exit status.                     *)
(*                                                                         *)
(* The library side (parser, codegen, the engine's assert/query, the serve *)
(* loop of prolog::thread, Interactive and Editor) is not part of the      *)
(* source tree at hand; it is modelled from the specification and kept as  *)
(* small as the driver's behaviour needs.                                  *)
(***************************************************************************)
EXTENDS Integers, Sequences, FiniteSets, TLC

(***************************************************************************)
(* Bounds of the model.                                                    *)
(***************************************************************************)
MaxFiles == 2
MaxReq == 2
MaxClauses == 3

(***************************************************************************)
(* Terms and rules (specification section 3).                              *)
(***************************************************************************)
Atom(n) == [kind |-> "atom", name |-> n, args |-> <<>>]

Variable(n) == [kind |-> "var", name |-> n, args |-> <<>>]

Compound(f, as) == [kind |-> "compound", name |-> f, args |-> as]

Rule(p, r) == [pattern |-> p, replacement |-> r]

RECURSIVE VarsOf(_)
VarsOf(t) ==
  IF t.kind = "var" THEN {t.name}
  ELSE UNION {VarsOf(t.args[i]) : i \in DOMAIN t.args}

\* add(zero, Y) -> Y ;
RuleAdd == Rule(Compound("add", <<Atom("zero"), Variable("Y")>>), Variable("Y"))

\* f(X) -> g(X) ;
RuleFG == Rule(Compound("f", <<Variable("X")>>), Compound("g", <<Variable("X")>>))

\* f(a) -> b ;
RuleFA == Rule(Compound("f", <<Atom("a")>>), Atom("b"))

\* id(X) -> X ;
RuleId == Rule(Compound("id", <<Variable("X")>>), Variable("X"))

\* f(X) -> g(Y) ;   (Y does not occur in the pattern)
RuleBad == Rule(Compound("f", <<Variable("X")>>), Compound("g", <<Variable("Y")>>))

(***************************************************************************)
(* File names and the disk.  A file name is a stem and an extension; the   *)
(* extension "" stands for a path without extension.  A file's content is  *)
(* described by what the readers make of it: whether it can be opened,     *)
(* whether the bytes are UTF-8, what parse_rules returns for the text and  *)
(* what binary::deserialize_rules returns for the bytes.                   *)
(***************************************************************************)
FileName(s, e) == [stem |-> s, ext |-> e]

Prelude == FileName("prelude", "mlb")

None == [ok |-> FALSE, rules |-> <<>>]

Some(rs) == [ok |-> TRUE, rules |-> rs]

Content(r, u, p, d) == [present |-> TRUE, readable |-> r, utf8 |-> u,
                        parsed |-> p, decoded |-> d]

Absent == [present |-> FALSE, readable |-> FALSE, utf8 |-> FALSE,
           parsed |-> None, decoded |-> None]

\* The file left behind by opening a missing path with create(true): no bytes.
\* emptyDecodes says whether the codec accepts the empty payload.
EmptyFile(emptyDecodes) ==
  Content(TRUE, TRUE, Some(<<>>), IF emptyDecodes THEN Some(<<>>) ELSE None)

TextFile(rs) == Content(TRUE, TRUE, Some(rs), None)

BinaryFile(rs) == Content(TRUE, FALSE, None, Some(rs))

Garbage == Content(TRUE, FALSE, None, None)

BadSyntax == Content(TRUE, TRUE, None, None)

Locked == Content(FALSE, FALSE, None, None)

UserFiles ==
  { FileName("a", "mlt"), FileName("b", "mlt"), FileName("c", "mlt"),
    FileName("u", "mlt"), FileName("m", "mlt"), FileName("d", "mlb"),
    FileName("g", "mlb"), FileName("n", "mlb"), FileName("k", "mlb"),
    FileName("e", "txt"), FileName("noext", "") }

AllFiles == UserFiles \cup {Prelude} \cup {FileName(f.stem, "mlb") : f \in UserFiles}

UserDisk(f) ==
  CASE f = FileName("a", "mlt") -> TextFile(<<RuleAdd, RuleFG>>)
    [] f = FileName("b", "mlt") -> TextFile(<<RuleId, RuleBad, RuleFA>>)
    [] f = FileName("c", "mlt") -> BadSyntax
    [] f = FileName("u", "mlt") -> Garbage
    [] f = FileName("d", "mlb") -> Garbage
    [] f = FileName("g", "mlb") -> BinaryFile(<<RuleFA>>)
    [] f = FileName("k", "mlb") -> Locked
    [] f = FileName("e", "txt") -> TextFile(<<RuleId>>)
    [] f = FileName("noext", "") -> TextFile(<<RuleId>>)
    [] f = FileName("a", "mlb") -> BinaryFile(<<RuleAdd, RuleFG>>)
    [] OTHER -> Absent

PreludeChoices == {BinaryFile(<<RuleId, RuleFA>>), Absent, Garbage}

(***************************************************************************)
(* Results.                                                                *)
(***************************************************************************)
Ok(rs) == [tag |-> "Ok", rules |-> rs, error |-> "none"]

Err(kind) == [tag |-> "Err", rules |-> <<>>, error |-> kind]

Panic == [tag |-> "Panic", rules |-> <<>>, error |-> "panic"]

(***************************************************************************)
(* load_text_file: read, decode as UTF-8, parse.                           *)
(***************************************************************************)
load_text_file(filename, d) ==
  IF ~d[filename].present \/ ~d[filename].readable THEN Err("IO")
  ELSE IF ~d[filename].utf8 THEN Err("Decode")
  ELSE IF ~d[filename].parsed.ok THEN Err("Parse")
  ELSE Ok(d[filename].parsed.rules)

(***************************************************************************)
(* load_binary_file: open with append/create/read, so that a missing file  *)
(* is created empty; read to the end; deserialize.                         *)
(***************************************************************************)
OpenCreate(filename, d, emptyDecodes) ==
  IF d[filename].present THEN d
  ELSE [d EXCEPT ![filename] = EmptyFile(emptyDecodes)]

load_binary_file(filename, d, emptyDecodes) ==
  LET file == OpenCreate(filename, d, emptyDecodes)[filename]
  IN  IF ~file.readable THEN Err("IO")
      ELSE IF ~file.decoded.ok THEN Err("Decode")
      ELSE Ok(file.decoded.rules)

(***************************************************************************)
(* load_file: dispatch on the extension; extension() is None for a path    *)
(* without extension and the unwrap of it panics.                          *)
(***************************************************************************)
load_file(filename, d, emptyDecodes) ==
  IF filename.ext = "" THEN Panic
  ELSE IF filename.ext = "mlt" THEN load_text_file(filename, d)
  ELSE IF filename.ext = "mlb" THEN load_binary_file(filename, d, emptyDecodes)
  ELSE Err("Extension")

DiskAfterLoad(filename, d, emptyDecodes) ==
  IF filename.ext = "mlb" THEN OpenCreate(filename, d, emptyDecodes) ELSE d

(***************************************************************************)
(* codegen::generate: one clause per rule, encoding "pattern rewrites to   *)
(* replacement"; the whole batch fails when some replacement uses a        *)
(* variable that its pattern does not bind.                                *)
(***************************************************************************)
Defined(rule) == VarsOf(rule.replacement) \subseteq VarsOf(rule.pattern)

ClauseOf(rule) ==
  [head |-> Compound("rewrite", <<rule.pattern, rule.replacement>>), body |-> <<>>]

generate(rules) ==
  IF \A i \in DOMAIN rules : Defined(rules[i])
  THEN [tag |-> "Ok", clauses |-> [i \in DOMAIN rules |-> ClauseOf(rules[i])]]
  ELSE [tag |-> "Err", clauses |-> <<>>]

(***************************************************************************)
(* The resolution engine: assert at either end of the module's clause      *)
(* list, and query in stored order.                                        *)
(***************************************************************************)
\* Variant with the two ends exchanged.
ctx_assert_swapped(m, clause, location) ==
  IF location = "First" THEN Append(m, clause) ELSE <<clause>> \o m

ctx_assert(m, clause, location) ==
  IF location = "First" THEN <<clause>> \o m ELSE Append(m, clause)

RECURSIVE Shape(_, _)
Shape(pat, t) ==
  IF pat.kind = "var" THEN TRUE
  ELSE /\ pat.kind = t.kind
       /\ pat.name = t.name
       /\ Len(pat.args) = Len(t.args)
       /\ \A i \in DOMAIN pat.args : Shape(pat.args[i], t.args[i])

RECURSIVE Bindings(_, _)
Bindings(pat, t) ==
  IF pat.kind = "var" THEN {<<pat.name, t>>}
  ELSE UNION {Bindings(pat.args[i], t.args[i]) : i \in DOMAIN pat.args}

unify(pat, t) ==
  /\ Shape(pat, t)
  /\ \A p, q \in Bindings(pat, t) : p[1] = q[1] => p[2] = q[2]

RECURSIVE Substitute(_, _)
Substitute(t, sigma) ==
  IF t.kind = "var"
  THEN IF \E p \in sigma : p[1] = t.name
       THEN (CHOOSE p \in sigma : p[1] = t.name)[2]
       ELSE t
  ELSE [t EXCEPT !.args = [i \in DOMAIN t.args |-> Substitute(t.args[i], sigma)]]

RECURSIVE Resolve(_, _, _)
Resolve(m, goal, i) ==
  IF i > Len(m) THEN <<>>
  ELSE LET pat == m[i].head.args[1]
           rep == m[i].head.args[2]
       IN  (IF unify(pat, goal)
            THEN <<[clause |-> m[i], result |-> Substitute(rep, Bindings(pat, goal))]>>
            ELSE <<>>) \o Resolve(m, goal, i + 1)

query(m, goal) == Resolve(m, goal, 1)

Goals == { Compound("add", <<Atom("zero"), Atom("atom_x")>>),
           Compound("f", <<Atom("a")>>) }

(***************************************************************************)
(* State.                                                                  *)
(***************************************************************************)
VARIABLES
  args,        \* the parsed command line: mode, no-prelude flag, FILES / FILE
  disk,        \* the file system
  pc,          \* position of the main thread
  loaded,      \* rule lists of the files loaded so far (the collect in progress)
  lastLoad,    \* the result of the latest load_file call
  failure,     \* the load-time error that has occurred, "none" if none
  exitCode,    \* -1 while the process runs
  stderr,      \* what has been printed on standard error
  session,     \* the interactive session created: "none", "repl" or "editor"
  epc,         \* position of the engine thread
  generated,   \* number of calls of codegen::generate
  pending,     \* clauses of the batch not yet asserted
  module,      \* the prelude module's clause list
  assertedAt,  \* pairs <<clause, location>> of the assertions made
  inProgress,  \* the requests the engine thread is processing
  answers,     \* the result of the latest query
  reqChan,     \* interactive_tx -> prolog_rx
  respChan,    \* prolog_tx -> interactive_rx
  rxAlive,     \* prolog_rx exists
  txAlive,     \* prolog_tx exists
  nextReq,     \* id of the front-end's next request
  status,      \* per request: "unsent", "pending", "answered", "disconnected"
  submitted,   \* request ids in the order of their successful submission
  observed,    \* request ids of the responses in the order the front-end saw them
  consumed,    \* number of requests the engine thread took from the channel
  emitted      \* number of responses the engine thread sent

mainVars == <<args, disk, pc, loaded, lastLoad, exitCode, session>>

engineVars == <<epc, generated, pending, module, assertedAt, inProgress, answers,
                consumed, emitted>>

chanVars == <<reqChan, respChan, rxAlive, txAlive>>

feVars == <<nextReq, status, submitted, observed>>

vars == <<mainVars, failure, stderr, engineVars, chanVars, feVars>>

BoundedSeq(S, n) == UNION {[1..k -> S] : k \in 0..n}

Flatten(ss) ==
  LET RECURSIVE F(_)
      F(i) == IF i > Len(ss) THEN <<>> ELSE ss[i] \o F(i + 1)
  IN  F(1)

CommandLines ==
  [mode : {"repl"}, noPrelude : BOOLEAN, files : BoundedSeq(UserFiles, MaxFiles)]
    \cup [mode : {"edit"}, noPrelude : {FALSE}, files : [1..1 -> UserFiles]]

Init ==
  /\ args \in CommandLines
  /\ \E p \in PreludeChoices :
       disk = [f \in AllFiles |-> IF f = Prelude THEN p ELSE UserDisk(f)]
  /\ pc = IF args.mode = "edit" THEN "edit_load" ELSE "load"
  /\ loaded = <<>>
  /\ lastLoad = [tag |-> "none", rules |-> <<>>, error |-> "none"]
  /\ failure = "none"
  /\ exitCode = -1
  /\ stderr = <<>>
  /\ session = "none"
  /\ epc = "unspawned"
  /\ generated = 0
  /\ pending = <<>>
  /\ module = <<>>
  /\ assertedAt = {}
  /\ inProgress = <<>>
  /\ answers = <<>>
  /\ reqChan = <<>>
  /\ respChan = <<>>
  /\ rxAlive = FALSE
  /\ txAlive = FALSE
  /\ nextReq = 1
  /\ status = [i \in 1..MaxReq |-> "unsent"]
  /\ submitted = <<>>
  /\ observed = <<>>
  /\ consumed = 0
  /\ emitted = 0

(***************************************************************************)
(* The main thread, default mode.                                          *)
(***************************************************************************)
\* main.rs 79-85: the prelude first unless --no-prelude, then FILES in order.
FilesToLoad(a) ==
  (IF ~a.noPrelude THEN <<Prelude>> ELSE <<>>) \o a.files

\* The process ends: main returned or a panic reached the top of the main thread.
Exit(code, message) ==
  /\ pc' = "exited"
  /\ exitCode' = code
  /\ stderr' = IF message = "" THEN stderr ELSE Append(stderr, message)

\* main.rs 86, 109: one step of the short-circuiting collect over load_file.
LoadNext ==
  /\ pc = "load"
  /\ Len(loaded) < Len(FilesToLoad(args))
  /\ \E emptyDecodes \in BOOLEAN :
       LET file == FilesToLoad(args)[Len(loaded) + 1]
           r == load_file(file, disk, emptyDecodes)
       IN  /\ lastLoad' = r
           /\ CASE r.tag = "Ok" ->
                     /\ loaded' = Append(loaded, r.rules)
                     /\ disk' = DiskAfterLoad(file, disk, emptyDecodes)
                     /\ UNCHANGED <<pc, exitCode, stderr, failure>>
                [] r.tag = "Err" ->
                     /\ failure' = r.error
                     /\ disk' = DiskAfterLoad(file, disk, emptyDecodes)
                     /\ Exit(0, "load error")
                     /\ UNCHANGED loaded
                [] r.tag = "Panic" ->
                     /\ Exit(101, "panic")
                     /\ UNCHANGED <<loaded, disk, failure>>
  /\ UNCHANGED <<args, session, engineVars, chanVars, feVars>>

\* main.rs 88-103: both channels are created and the engine thread is spawned.
Spawn ==
  /\ pc = "load"
  /\ Len(loaded) = Len(FilesToLoad(args))
  /\ pc' = "new"
  /\ epc' = "generate"
  /\ rxAlive' = TRUE
  /\ txAlive' = TRUE
  /\ UNCHANGED <<args, disk, loaded, lastLoad, failure, exitCode, stderr, session,
                 generated, pending, module, assertedAt, inProgress, answers,
                 consumed, emitted, reqChan, respChan, feVars>>

\* main.rs 105: Interactive::new(interactive_tx), with ? on its error.
InteractiveNew ==
  /\ pc = "new"
  /\ \E ok \in BOOLEAN :
       IF ok
       THEN /\ pc' = "run"
            /\ session' = "repl"
            /\ UNCHANGED <<exitCode, stderr>>
       ELSE /\ Exit(1, "Error")
            /\ UNCHANGED session
  /\ UNCHANGED <<args, disk, loaded, lastLoad, failure, engineVars, chanVars, feVars>>

(***************************************************************************)
(* The channels.  unbounded_channel is a FIFO queue; a send succeeds while *)
(* the receiving end exists.                                               *)
(***************************************************************************)
\* Variant: a stack instead of a queue.
ChanSendFront(chan, msg) == <<msg>> \o chan

ChanSend(chan, msg) == Append(chan, msg)

(***************************************************************************)
(* The engine thread.  The spawned closure owns prolog_tx and prolog_rx:   *)
(* when the thread unwinds from a panic both ends are dropped, and the     *)
(* requests still queued are dropped with the receiver.                    *)
(***************************************************************************)
\* Variant: the sender of the response channel outlives the engine thread
\* (as it would if main kept prolog_tx and handed the thread a clone).
EngineThreadUnwindKeepsSender ==
  /\ epc' = "panicked"
  /\ rxAlive' = FALSE
  /\ txAlive' = txAlive
  /\ reqChan' = <<>>
  /\ stderr' = Append(stderr, "panic")

EngineThreadUnwind ==
  /\ epc' = "panicked"
  /\ rxAlive' = FALSE
  /\ txAlive' = FALSE
  /\ reqChan' = <<>>
  /\ stderr' = Append(stderr, "panic")

\* Variant: only the first file's rules reach the compiler.
BatchRulesFirstFile(ls) == IF ls = <<>> THEN <<>> ELSE ls[1]

\* main.rs 93: rules.into_iter().flatten().collect()
BatchRules(ls) == Flatten(ls)

\* Variant: rules are compiled and asserted one at a time, so that the rules
\* before an offending one are in the module when the thread panics.
BootGeneratePerRule ==
  /\ pc # "exited"
  /\ epc = "generate"
  /\ generated' = generated + 1
  /\ LET rules == BatchRules(loaded)
         g == generate(rules)
         bad == {i \in DOMAIN rules : ~Defined(rules[i])}
         k == CHOOSE i \in bad : \A j \in bad : i <= j
     IN  IF g.tag = "Ok"
         THEN /\ pending' = g.clauses
              /\ epc' = "assert"
              /\ UNCHANGED <<failure, stderr, chanVars, module, assertedAt>>
         ELSE /\ failure' = "Codegen"
              /\ module' = module \o [i \in 1..(k - 1) |-> ClauseOf(rules[i])]
              /\ assertedAt' = assertedAt \cup
                                 {<<ClauseOf(rules[i]), "Last">> : i \in 1..(k - 1)}
              /\ EngineThreadUnwind
              /\ UNCHANGED <<pending, respChan>>
  /\ UNCHANGED <<mainVars, inProgress, answers, consumed, emitted, feVars>>

\* Variant: a failed compilation is taken for an empty batch
\* (unwrap_or_default in place of unwrap).
BootGenerateLenient ==
  /\ pc # "exited"
  /\ epc = "generate"
  /\ generated' = generated + 1
  /\ pending' = generate(BatchRules(loaded)).clauses
  /\ epc' = "assert"
  /\ failure' = IF generate(BatchRules(loaded)).tag = "Ok" THEN failure ELSE "Codegen"
  /\ UNCHANGED <<mainVars, stderr, chanVars, module, assertedAt, inProgress, answers,
                 consumed, emitted, feVars>>

\* main.rs 93-94: the batch is compiled as a whole; unwrap panics on CodegenError.
BootGenerate ==
  /\ pc # "exited"
  /\ epc = "generate"
  /\ generated' = generated + 1
  /\ LET g == generate(BatchRules(loaded))
     IN  IF g.tag = "Ok"
         THEN /\ pending' = g.clauses
              /\ epc' = "assert"
              /\ UNCHANGED <<failure, stderr, chanVars>>
         ELSE /\ failure' = "Codegen"
              /\ EngineThreadUnwind
              /\ UNCHANGED <<pending, respChan>>
  /\ UNCHANGED <<mainVars, module, assertedAt, inProgress, answers, consumed,
                 emitted, feVars>>

\* Variant: AssertLocation::First in place of AssertLocation::Last.
BootAssertFirst ==
  /\ pc # "exited"
  /\ epc = "assert"
  /\ pending # <<>>
  /\ module' = ctx_assert(module, Head(pending), "First")
  /\ assertedAt' = assertedAt \cup {<<Head(pending), "First">>}
  /\ pending' = Tail(pending)
  /\ UNCHANGED <<mainVars, failure, stderr, epc, generated, inProgress, answers,
                 consumed, emitted, chanVars, feVars>>

\* main.rs 95-99: each clause is asserted at the end of the prelude module.
BootAssert ==
  /\ pc # "exited"
  /\ epc = "assert"
  /\ pending # <<>>
  /\ module' = ctx_assert(module, Head(pending), "Last")
  /\ assertedAt' = assertedAt \cup {<<Head(pending), "Last">>}
  /\ pending' = Tail(pending)
  /\ UNCHANGED <<mainVars, failure, stderr, epc, generated, inProgress, answers,
                 consumed, emitted, chanVars, feVars>>

\* prolog::thread: the serve loop is entered when the bootstrap has returned.
EnterServeLoop ==
  /\ pc # "exited"
  /\ epc = "assert"
  /\ pending = <<>>
  /\ epc' = "serve"
  /\ UNCHANGED <<mainVars, failure, stderr, generated, pending, module, assertedAt,
                 inProgress, answers, consumed, emitted, chanVars, feVars>>

\* The serve loop takes the oldest request when it is idle ...
ServeRecv ==
  /\ pc # "exited"
  /\ epc = "serve"
  /\ inProgress = <<>>
  /\ reqChan # <<>>
  /\ inProgress' = Append(inProgress, Head(reqChan))
  /\ reqChan' = Tail(reqChan)
  /\ consumed' = consumed + 1
  /\ UNCHANGED <<mainVars, failure, stderr, epc, generated, pending, module,
                 assertedAt, answers, emitted, respChan, rxAlive, txAlive, feVars>>

\* ... runs it to completion and sends the response.
ServeReply ==
  /\ pc # "exited"
  /\ epc = "serve"
  /\ inProgress # <<>>
  /\ LET req == Head(inProgress)
         result == query(module, req.goal)
     IN  /\ answers' = result
         /\ respChan' = ChanSend(respChan, [req |-> req.id, answers |-> result])
  /\ inProgress' = Tail(inProgress)
  /\ emitted' = emitted + 1
  /\ UNCHANGED <<mainVars, failure, stderr, epc, generated, pending, module,
                 assertedAt, consumed, reqChan, rxAlive, txAlive, feVars>>

\* Abnormal termination of the engine thread while it processes a request.
ServePanic ==
  /\ pc # "exited"
  /\ epc = "serve"
  /\ inProgress # <<>>
  /\ EngineThreadUnwind
  /\ UNCHANGED <<mainVars, failure, generated, pending, module, assertedAt,
                 inProgress, answers, consumed, emitted, respChan, feVars>>

(***************************************************************************)
(* The interactive front-end (main.rs 105-107 runs it on the main thread). *)
(***************************************************************************)
Pending == {i \in 1..MaxReq : status[i] = "pending"}

\* A request is sent; a send to a dropped receiver fails and ends the session.
FeSubmit ==
  /\ pc = "run"
  /\ nextReq <= MaxReq
  /\ \E goal \in Goals :
       IF rxAlive
       THEN /\ reqChan' = ChanSend(reqChan, [id |-> nextReq, goal |-> goal])
            /\ status' = [status EXCEPT ![nextReq] = "pending"]
            /\ submitted' = Append(submitted, nextReq)
            /\ UNCHANGED <<pc, exitCode>>
       ELSE /\ status' = [i \in 1..MaxReq |->
                            IF i = nextReq \/ status[i] = "pending"
                            THEN "disconnected" ELSE status[i]]
            /\ pc' = "exited"
            /\ exitCode' = 0
            /\ UNCHANGED <<reqChan, submitted>>
  /\ nextReq' = nextReq + 1
  /\ UNCHANGED <<args, disk, loaded, lastLoad, session, failure, stderr, engineVars,
                 respChan, rxAlive, txAlive, observed>>

\* A response is received.
FeRecv ==
  /\ pc = "run"
  /\ respChan # <<>>
  /\ observed' = Append(observed, Head(respChan).req)
  /\ status' = [status EXCEPT ![Head(respChan).req] = "answered"]
  /\ respChan' = Tail(respChan)
  /\ UNCHANGED <<mainVars, failure, stderr, engineVars, reqChan, rxAlive, txAlive,
                 nextReq, submitted>>

\* recv yields None: the channel is empty and its sender is gone.
FeRecvNone ==
  /\ pc = "run"
  /\ Pending # {}
  /\ respChan = <<>>
  /\ ~txAlive
  /\ status' = [i \in 1..MaxReq |->
                  IF status[i] = "pending" THEN "disconnected" ELSE status[i]]
  /\ pc' = "exited"
  /\ exitCode' = 0
  /\ UNCHANGED <<args, disk, loaded, lastLoad, session, failure, stderr, engineVars,
                 chanVars, nextReq, submitted, observed>>

\* The user ends the session; run returns and main returns Ok(()).
FeQuit ==
  /\ pc = "run"
  /\ pc' = "exited"
  /\ exitCode' = 0
  /\ UNCHANGED <<args, disk, loaded, lastLoad, session, failure, stderr, engineVars,
                 chanVars, feVars>>

(***************************************************************************)
(* The main thread, edit mode (main.rs 68-77).                             *)
(***************************************************************************)
EditLoad ==
  /\ pc = "edit_load"
  /\ \E emptyDecodes \in BOOLEAN :
       LET file == args.files[1]
           r == load_file(file, disk, emptyDecodes)
       IN  /\ lastLoad' = r
           /\ CASE r.tag = "Ok" ->
                     /\ loaded' = <<r.rules>>
                     /\ disk' = DiskAfterLoad(file, disk, emptyDecodes)
                     /\ pc' = "edit_canon"
                     /\ UNCHANGED <<exitCode, stderr, failure>>
                [] r.tag = "Err" ->
                     /\ failure' = r.error
                     /\ disk' = DiskAfterLoad(file, disk, emptyDecodes)
                     /\ Exit(1, "Error")
                     /\ UNCHANGED loaded
                [] r.tag = "Panic" ->
                     /\ Exit(101, "panic")
                     /\ UNCHANGED <<loaded, disk, failure>>
  /\ UNCHANGED <<args, session, engineVars, chanVars, feVars>>

\* main.rs 71-73
set_extension(filename, ext) == FileName(filename.stem, ext)

canonicalize(filename, d) ==
  IF d[filename].present THEN Ok(<<>>) ELSE Err("IO")

EditCanonicalize ==
  /\ pc = "edit_canon"
  /\ IF canonicalize(set_extension(args.files[1], "mlb"), disk).tag = "Ok"
     THEN /\ pc' = "editor_new"
          /\ UNCHANGED <<exitCode, stderr>>
     ELSE Exit(0, "Path could not be canonicalized")
  /\ UNCHANGED <<args, disk, loaded, lastLoad, session, failure, engineVars,
                 chanVars, feVars>>

\* main.rs 74: Editor::new(path, &rules)?
EditorNew ==
  /\ pc = "editor_new"
  /\ \E ok \in BOOLEAN :
       IF ok
       THEN /\ pc' = "editor_run"
            /\ session' = "editor"
            /\ UNCHANGED <<exitCode, stderr>>
       ELSE /\ Exit(1, "Error")
            /\ UNCHANGED session
  /\ UNCHANGED <<args, disk, loaded, lastLoad, failure, engineVars, chanVars, feVars>>

\* main.rs 74: .run().await returns when the user leaves the editor.
EditorQuit ==
  /\ pc = "editor_run"
  /\ Exit(0, "")
  /\ UNCHANGED <<args, disk, loaded, lastLoad, session, failure, engineVars,
                 chanVars, feVars>>

Next ==
  \/ LoadNext
  \/ Spawn
  \/ InteractiveNew
  \/ BootGenerate
  \/ BootAssert
  \/ EnterServeLoop
  \/ ServeRecv
  \/ ServeReply
  \/ ServePanic
  \/ FeSubmit
  \/ FeRecv
  \/ FeRecvNone
  \/ FeQuit
  \/ EditLoad
  \/ EditCanonicalize
  \/ EditorNew
  \/ EditorQuit

Spec == Init /\ [][Next]_vars

(***************************************************************************)
(* The front-end task is resumed whenever its receive can complete: the    *)
(* scheduler guarantees weak fairness of the two receive steps.            *)
(***************************************************************************)
LiveSpec == Spec /\ WF_vars(FeRecv) /\ WF_vars(FeRecvNone)

(***************************************************************************)
(* The resolution engine on its own: clauses are asserted at either end of *)
(* a module and goals are queried.                                         *)
(***************************************************************************)
ClausePool == {ClauseOf(r) : r \in {RuleAdd, RuleFG, RuleFA, RuleId}}

InitEngine ==
  /\ args = [mode |-> "repl", noPrelude |-> TRUE, files |-> <<>>]
  /\ disk = [f \in AllFiles |-> UserDisk(f)]
  /\ pc = "engine_only"
  /\ loaded = <<>>
  /\ lastLoad = [tag |-> "none", rules |-> <<>>, error |-> "none"]
  /\ failure = "none"
  /\ exitCode = -1
  /\ stderr = <<>>
  /\ session = "none"
  /\ epc = "serve"
  /\ generated = 0
  /\ pending = <<>>
  /\ module = <<>>
  /\ assertedAt = {}
  /\ inProgress = <<>>
  /\ answers = <<>>
  /\ reqChan = <<>>
  /\ respChan = <<>>
  /\ rxAlive = FALSE
  /\ txAlive = FALSE
  /\ nextReq = 1
  /\ status = [i \in 1..MaxReq |-> "unsent"]
  /\ submitted = <<>>
  /\ observed = <<>>
  /\ consumed = 0
  /\ emitted = 0

EngineAssert ==
  /\ pc = "engine_only"
  /\ Len(module) < MaxClauses
  /\ \E clause \in ClausePool, location \in {"First", "Last"} :
       /\ \A i \in DOMAIN module : module[i] # clause
       /\ module' = ctx_assert(module, clause, location)
       /\ assertedAt' = assertedAt \cup {<<clause, location>>}
  /\ UNCHANGED <<mainVars, failure, stderr, epc, generated, pending, inProgress,
                 answers, consumed, emitted, chanVars, feVars>>

EngineQuery ==
  /\ pc = "engine_only"
  /\ \E goal \in Goals : answers' = query(module, goal)
  /\ UNCHANGED <<mainVars, failure, stderr, epc, generated, pending, module,
                 assertedAt, inProgress, consumed, emitted, chanVars, feVars>>

NextEngine == EngineAssert \/ EngineQuery

SpecEngine == InitEngine /\ [][NextEngine]_vars

(***************************************************************************)
(* Vocabulary of the properties.                                           *)
(***************************************************************************)
\* The rules a file holds, as its loader returns them.
FileRules(f) ==
  IF f.ext = "mlt" THEN disk[f].parsed.rules ELSE disk[f].decoded.rules

\* The startup rule set in load order: the prelude's rules unless --no-prelude,
\* then the rules of each user file in command-line order.
StartupRules ==
  (IF args.noPrelude THEN <<>> ELSE FileRules(Prelude))
    \o Flatten([i \in DOMAIN args.files |-> FileRules(args.files[i])])

StartupClauses == [i \in DOMAIN StartupRules |-> ClauseOf(StartupRules[i])]

EnginePanicked == epc = "panicked"

\* The bootstrap procedure has returned normally.
BootstrapComplete == epc = "serve" \/ (epc = "panicked" /\ failure # "Codegen")

\* The engine thread has taken a request or sent a response.
Served == consumed > 0 \/ emitted > 0 \/ inProgress # <<>>

\* Position of a clause in a sequence of derivations.
Through(clause, location, i) ==
  /\ answers[i].clause = clause
  /\ <<clause, location>> \in assertedAt

(***************************************************************************)
(* C1: the responses reach the front-end in the order in which their       *)
(* requests were submitted, and the engine thread has at most one request  *)
(* in progress.                                                            *)
(***************************************************************************)
C1_ResponsesInRequestOrder ==
  /\ Len(inProgress) <= 1
  /\ Len(observed) <= Len(submitted)
  /\ observed = SubSeq(submitted, 1, Len(observed))

C1_Witness ==
  /\ submitted = <<1, 2>>
  /\ observed = <<1, 2>>
  /\ emitted = 2

(***************************************************************************)
(* C2: when the engine thread has terminated abnormally both channels are  *)
(* disconnected, no request submitted afterwards is left waiting, and      *)
(* every request in flight stops waiting: it observes the disconnection    *)
(* (or the response sent before the failure), unless the session is ended. *)
(***************************************************************************)
C2_DisconnectionObserved ==
  /\ [](EnginePanicked => ~rxAlive /\ ~txAlive)
  /\ [][EnginePanicked =>
          \A i \in 1..MaxReq : status'[i] = "pending" => status[i] = "pending"]_vars
  /\ \A i \in 1..MaxReq :
       (EnginePanicked /\ status[i] = "pending")
         ~> (status[i] \in {"disconnected", "answered"} \/ pc = "exited")

C2_Witness ==
  /\ EnginePanicked
  /\ submitted = <<1>>
  /\ status[1] = "disconnected"
  /\ status[2] = "disconnected"

(***************************************************************************)
(* C3: the interactive front-end exists only when no load-time error has   *)
(* occurred and the startup rule set has been asserted completely.         *)
(***************************************************************************)
C3_NoSessionBeforeStartupDone ==
  session = "repl" => (failure = "none" /\ BootstrapComplete)

(***************************************************************************)
(* C4: the startup batch is compiled once, and the engine thread handles   *)
(* a request only when every clause of the batch is in the module.         *)
(***************************************************************************)
C4_BootstrapBeforeServing ==
  /\ generated <= 1
  /\ Served => (generated = 1 /\ pending = <<>> /\ module = StartupClauses)

C4_Witness ==
  /\ consumed > 0
  /\ Len(args.files) = 2
  /\ Len(module) >= 3

(***************************************************************************)
(* C5: after a CodegenError no clause of the batch is in the module.       *)
(***************************************************************************)
C5_FailedBatchAssertsNothing ==
  failure = "Codegen" => (module = <<>> /\ assertedAt = {})

C5_Witness ==
  /\ failure = "Codegen"
  /\ EnginePanicked
  /\ Defined(StartupRules[1])

(***************************************************************************)
(* C6: with a rule in the startup rule set whose replacement uses a        *)
(* variable absent from its pattern, generate fails and the engine thread  *)
(* never takes a request nor sends a response.                             *)
(***************************************************************************)
C6_UndefinedVariableNeverServes ==
  (epc # "unspawned" /\ \E i \in DOMAIN StartupRules : ~Defined(StartupRules[i]))
    => /\ epc \in {"generate", "panicked"}
       /\ (generated > 0 => failure = "Codegen")
       /\ ~Served
       /\ respChan = <<>>
       /\ observed = <<>>

C6_Witness ==
  /\ failure = "Codegen"
  /\ RuleBad \in {StartupRules[i] : i \in DOMAIN StartupRules}
  /\ nextReq > 1

(***************************************************************************)
(* C7: a load, parse or codegen failure is reported, no interactive        *)
(* session is entered and the exit status is not zero.                     *)
(***************************************************************************)
C7_FailureExitsNonZero ==
  failure # "none" =>
    /\ stderr # <<>>
    /\ session = "none"
    /\ (pc = "exited" => exitCode # 0)

(***************************************************************************)
(* C8: of two derivations of one query, the one through a clause asserted  *)
(* with position Last comes before the one through a clause asserted with  *)
(* position First.                                                         *)
(***************************************************************************)
C8_LastBeforeFirst ==
  \A i, j \in DOMAIN answers :
    \A c1, c2 \in ClausePool :
      (Through(c1, "First", i) /\ Through(c2, "Last", j)) => j < i

(***************************************************************************)
(* C8, amended: the derivation through the clause asserted with position   *)
(* First comes before the one through the clause asserted with position    *)
(* Last.                                                                   *)
(***************************************************************************)
C8_FirstBeforeLast ==
  \A i, j \in DOMAIN answers :
    \A c1, c2 \in ClausePool :
      (Through(c1, "First", i) /\ Through(c2, "Last", j)) => i < j

C8_Witness ==
  /\ Len(answers) = 2
  /\ Len(module) = 3
  /\ <<answers[1].clause, "First">> \in assertedAt
  /\ <<answers[2].clause, "Last">> \in assertedAt
  /\ module[1] # answers[1].clause

(***************************************************************************)
(* C9: after a successful startup in the default mode the module holds the *)
(* clauses in load order, each asserted with position Last.                *)
(***************************************************************************)
C9_ModuleInLoadOrder ==
  (args.mode = "repl" /\ BootstrapComplete)
    => /\ module = StartupClauses
       /\ \A a \in assertedAt : a[2] = "Last"

C9_Witness ==
  /\ epc = "serve"
  /\ ~args.noPrelude
  /\ Len(args.files) = 2
  /\ args.files[1] # args.files[2]
  /\ Len(module) = 5

(***************************************************************************)
(* C10: load_file returns Ok or Err for every file name.                   *)
(***************************************************************************)
C10_LoadFileReturns ==
  /\ lastLoad.tag \in {"none", "Ok", "Err"}
  /\ exitCode # 101

====
